---- MODULE Spec2Model ----
(***************************************************************************)
(* clean_duplicate_history: the management command that scans the          *)
(* historical records of each model for identical sequential entries and   *)
(* deletes them, one block of ids per transaction.                         *)
(*                                                                         *)
(* The history tables are drawn in Init; the command never inserts or      *)
(* updates a row, so a table is the set of the primary keys still present  *)
(* and `rows` gives each key its (immutable) columns.  history_date is     *)
(* distinct per row: ORDER BY history_date DESC is then a total order.     *)
(* The models handed to the command start with the same history; each has  *)
(* its own table from then on.  step_size, 10**5 in the source, is drawn   *)
(* from a small range so that ids fall into several blocks.                *)
(***************************************************************************)
EXTENDS Integers, Sequences, FiniteSets, TLC

\* ------------------------------------------------------------------ bounds
MaxRows    == 3     \* history rows per table (history_id 1..MaxRows)
MaxId      == 1     \* ids of the tracked instances are 0..MaxId
MaxVal     == 2     \* a data column holds NULL or 1..MaxVal
NumFields  == 2     \* data columns of the historical model
MaxStep    == 2     \* step_size is drawn from 1..MaxStep (10**5 in the source)
MaxMinutes == 3     \* --minutes is absent or in 1..MaxMinutes
NumModels  == 2     \* models handed to _process
MaxRuns    == 2     \* invocations of the command in one behaviour of SpecRerun

NULL == 0           \* SQL NULL in a column, None in Python

Vals        == {NULL} \cup (1..MaxVal)
Hids        == 1..MaxRows
Ids         == 0..MaxId
data_fields == 1..NumFields
Models      == 1..NumModels
Now         == MaxRows + 2          \* timezone.now(), in minutes: after the last row

VARIABLES
    rows,            \* history_id -> columns of the row
    step_size,       \* block width
    table,           \* model -> history_ids present in its history table
    pc,              \* "idle", "models", "batches", "done", "raised"
    to_process,      \* models the for loop of _process has not visited yet
    model,           \* model of the current iteration (NULL: none)
    dry_run,
    date_back,       \* options["minutes"] (NULL: not given)
    stop_date,       \* NULL: no cutoff
    max_id,
    max_iterations,
    x,               \* block index of the inner loop
    entries_deleted,
    listy,           \* pks returned by the raw query of the last block
    ranges,          \* the [lo, hi) parameters of the blocks of this model so far
    report,          \* model -> count logged by DONE_CLEANING_FOR_MODEL (NULL - 1: none)
    table0,          \* the tables when the running invocation started
    runs,            \* invocations started
    prev             \* summary of the invocation before the running one

vars == << rows, step_size, table, pc, to_process, model, dry_run, date_back,
           stop_date, max_id, max_iterations, x, entries_deleted, listy, ranges,
           report, table0, runs, prev >>

NotLogged == NULL - 1
NoReport  == [m \in Models |-> NotLogged]
NoRun     == [ended |-> "none", dry_run |-> FALSE, date_back |-> NULL,
              report |-> NoReport, removed |-> [m \in Models |-> 0]]

\* ------------------------------------------------- SQL three-valued logic
Eq3(a, b)   == IF a = NULL \/ b = NULL THEN "U" ELSE IF a = b THEN "T" ELSE "F"
IsNull3(a)  == IF a = NULL THEN "T" ELSE "F"
And3(a, b)  == IF a = "F" \/ b = "F" THEN "F"
               ELSE IF a = "T" /\ b = "T" THEN "T" ELSE "U"
\* OR over a non-empty set of truth values
Or3(S)      == IF "T" \in S THEN "T" ELSE IF "U" \in S THEN "U" ELSE "F"

\* ------------------------------------------------------------ the query
\* m_qs: history_model.objects, filtered by history_date >= stop_date if given
m_qs(T, stop) == IF stop = NULL THEN T
                 ELSE {h \in T : rows[h].history_date >= stop}

raw_from_filtered(T, stop) == m_qs(T, stop)

\* m_qs.raw(query, params) builds a RawQuerySet on the model's table: the
\* filter of m_qs is not part of the SQL, the FROM clause reads the whole table
raw_from(T, stop) == T

\* FROM table WHERE id >= %s AND id < %s
sub_table(T, lo, hi) == {h \in T : rows[h].id >= lo /\ rows[h].id < hi}

LagRows(S, h) ==
    LET newer == {g \in S : /\ rows[g].id = rows[h].id
                            /\ rows[g].history_date > rows[h].history_date}
    IN  {g \in newer : \A k \in newer : rows[k].history_date >= rows[g].history_date}

\* the row LEAD() reads: the next one of the partition (same id) in
\* history_date DESC order; no row for the last of the partition
LeadRows(S, h) ==
    LET later == {g \in S : /\ rows[g].id = rows[h].id
                            /\ rows[g].history_date < rows[h].history_date}
    IN  {g \in later : \A k \in later : rows[k].history_date <= rows[g].history_date}

\* LEAD(column) OVER (PARTITION BY id ORDER BY history_date DESC)
Lead(S, h, f) == LET l == LeadRows(S, h)
                 IN  IF l = {} THEN NULL ELSE rows[CHOOSE g \in l : TRUE].fields[f]

\* the outer WHERE, as SQL parses the joined text
\*   field_0 = history_0 OR (n_0) AND field_1 = history_1 OR (n_1) AND ... OR (n_k)
\* with n_i = (field_i is NULL AND history_i is NULL): AND binds tighter than OR
where_clause(fld, hist) ==
    LET eq(i) == Eq3(fld[i], hist[i])
        nn(i) == And3(IsNull3(fld[i]), IsNull3(hist[i]))
    IN  Or3({eq(1)}
            \cup {And3(nn(i), eq(i + 1)) : i \in 1..(NumFields - 1)}
            \cup {nn(NumFields)})

\* SELECT history_id FROM (SELECT ... FROM table WHERE id >= lo AND id < hi) WHERE ...
raw_query(T, lo, hi) ==
    LET S == sub_table(T, lo, hi)
    IN  {h \in S : where_clause(rows[h].fields,
                                [f \in data_fields |-> Lead(S, h, f)]) = "T"}

\* Max('id') over m_qs
MaxIdOf(Q) == CHOOSE i \in {rows[h].id : h \in Q} : \A h \in Q : rows[h].id <= i

FloorDiv(a, b) == a \div b

\* int(math.ceil(max_id / step_size))
CeilDiv(a, b) == (a + b - 1) \div b

\* m_qs.filter(pk__in=listy).delete()
delete(T, stop, pks) == T \ (pks \cap m_qs(T, stop))

apply_always(T, stop, pks, dry) == delete(T, stop, pks)

\* if not dry_run: m_qs.filter(pk__in=listy).delete()
apply(T, stop, pks, dry) == IF dry THEN T ELSE delete(T, stop, pks)

rollback_run(before_block, before_run) == before_run

\* with transaction.atomic(savepoint=True), one per block: when the block
\* raises, the table is what it was when the block began; the blocks committed
\* before it are not undone
rollback(before_block, before_run) == before_block

\* ------------------------------------------------------------------- Init
Init ==
    \* the history is written in time order: row h was recorded at minute h
    /\ \E ids \in [Hids -> Ids], flds \in [Hids -> [data_fields -> Vals]] :
          rows = [h \in Hids |-> [id |-> ids[h], history_date |-> h, fields |-> flds[h]]]
    /\ step_size \in 1..MaxStep
    /\ table = [m \in Models |-> Hids]
    /\ pc = "idle"
    /\ to_process = {}
    /\ model = NULL
    /\ dry_run = FALSE
    /\ date_back = NULL
    /\ stop_date = NULL
    /\ max_id = 0
    /\ max_iterations = 0
    /\ x = 0
    /\ entries_deleted = 0
    /\ listy = {}
    /\ ranges = << >>
    /\ report = NoReport
    /\ table0 = table
    /\ runs = 0
    /\ prev = NoRun

\* the summary of the invocation that is ending
Summary == [ended |-> pc, dry_run |-> dry_run, date_back |-> date_back,
            report |-> report,
            removed |-> [m \in Models |-> Cardinality(table0[m] \ table[m])]]

\* ---------------------------------------------------------------- actions
\* handle -> _process, up to the head of the for loop over to_process
Invoke(dry, minutes) ==
    /\ runs' = runs + 1
    /\ dry_run' = dry
    /\ date_back' = minutes
    /\ stop_date' = IF minutes # NULL THEN Now - minutes ELSE NULL
    /\ to_process' = Models
    /\ model' = NULL
    /\ table0' = table
    /\ report' = NoReport
    /\ max_id' = 0 /\ max_iterations' = 0 /\ x' = 0 /\ entries_deleted' = 0
    /\ listy' = {} /\ ranges' = << >>
    /\ pc' = "models"
    /\ UNCHANGED << rows, step_size, table >>

\* the command is run on the tables of Init
Handle(dry, minutes) ==
    /\ pc = "idle"
    /\ prev' = NoRun
    /\ Invoke(dry, minutes)

\* the command is run again, after an invocation that returned or raised
Rerun(dry, minutes) ==
    /\ pc \in {"done", "raised"}
    /\ runs < MaxRuns
    /\ prev' = Summary
    /\ Invoke(dry, minutes)

\* for model, history_model in to_process: ... if not found: continue
SkipModel(m) ==
    /\ pc = "models"
    /\ m \in to_process
    /\ m_qs(table[m], stop_date) = {}
    /\ to_process' = to_process \ {m}
    /\ model' = m
    /\ UNCHANGED << rows, step_size, table, pc, dry_run, date_back, stop_date,
                    max_id, max_iterations, x, entries_deleted, listy, ranges,
                    report, table0, runs, prev >>

\* ... max_id, the query text, step_size, max_iterations, entries_deleted = 0
StartModel(m) ==
    /\ pc = "models"
    /\ m \in to_process
    /\ m_qs(table[m], stop_date) # {}
    /\ to_process' = to_process \ {m}
    /\ model' = m
    /\ max_id' = MaxIdOf(m_qs(table[m], stop_date))
    /\ max_iterations' = CeilDiv(max_id', step_size)
    /\ entries_deleted' = 0
    /\ x' = 0
    /\ listy' = {}
    /\ ranges' = << >>
    /\ pc' = "batches"
    /\ UNCHANGED << rows, step_size, table, dry_run, date_back, stop_date,
                    report, table0, runs, prev >>

\* one iteration of for x in range(0, max_iterations + 1), its transaction committed
Batch ==
    /\ pc = "batches"
    /\ x <= max_iterations
    /\ LET lo == x * step_size
           hi == (x + 1) * step_size
           found == raw_query(raw_from(table[model], stop_date), lo, hi)
       IN  /\ listy' = found
           /\ entries_deleted' = entries_deleted + Cardinality(found)
           /\ table' = [table EXCEPT ![model] = apply(@, stop_date, found, dry_run)]
           /\ ranges' = Append(ranges, << lo, hi >>)
    /\ x' = x + 1
    /\ UNCHANGED << rows, step_size, pc, to_process, model, dry_run, date_back,
                    stop_date, max_id, max_iterations, report, table0, runs, prev >>

\* one iteration whose read or delete raises: transaction.atomic rolls the
\* block back and re-raises; nothing catches it in _process or handle
BatchFail ==
    /\ pc = "batches"
    /\ x <= max_iterations
    /\ table' = [table EXCEPT ![model] = rollback(@, table0[model])]
    /\ ranges' = Append(ranges, << x * step_size, (x + 1) * step_size >>)
    /\ pc' = "raised"
    /\ UNCHANGED << rows, step_size, to_process, model, dry_run, date_back,
                    stop_date, max_id, max_iterations, x, entries_deleted, listy,
                    report, table0, runs, prev >>

\* the inner loop is exhausted: self.log(DONE_CLEANING_FOR_MODEL ...)
LogDone ==
    /\ pc = "batches"
    /\ x > max_iterations
    /\ report' = [report EXCEPT ![model] = entries_deleted]
    /\ pc' = "models"
    /\ UNCHANGED << rows, step_size, table, to_process, model, dry_run, date_back,
                    stop_date, max_id, max_iterations, x, entries_deleted, listy,
                    ranges, table0, runs, prev >>

\* the outer loop is exhausted: _process and handle return
Finish ==
    /\ pc = "models"
    /\ to_process = {}
    /\ pc' = "done"
    /\ UNCHANGED << rows, step_size, table, to_process, model, dry_run, date_back,
                    stop_date, max_id, max_iterations, x, entries_deleted, listy,
                    ranges, report, table0, runs, prev >>

Next ==
    \/ \E dry \in BOOLEAN, minutes \in {NULL} \cup (1..MaxMinutes) : Handle(dry, minutes)
    \/ \E m \in Models : SkipModel(m)
    \/ \E m \in Models : StartModel(m)
    \/ Batch
    \/ BatchFail
    \/ LogDone
    \/ Finish

Spec == Init /\ [][Next]_vars

\* repeated invocations, on the history of a single instance
InitRerun == Init /\ step_size = 1 /\ \A h \in Hids : rows[h].id = 0

NextRerun ==
    \/ Next
    \/ \E dry \in BOOLEAN, minutes \in {NULL} \cup (1..MaxMinutes) : Rerun(dry, minutes)

SpecRerun == InitRerun /\ [][NextRerun]_vars

\* ================================================================ claims
\* the immediately older version of h among T (none for the oldest of its id)
OlderOf(T, h) ==
    {o \in T : /\ rows[o].id = rows[h].id
               /\ rows[o].history_date < rows[h].history_date
               /\ \A k \in T : (rows[k].id = rows[h].id
                                /\ rows[k].history_date < rows[h].history_date)
                               => rows[k].history_date <= rows[o].history_date}

\* a and b agree on every tracked field: equal, or both NULL
Equivalent(a, b) == \A f \in data_fields : rows[a].fields[f] = rows[b].fields[f]

InWindow(h)    == stop_date # NULL /\ rows[h].history_date >= stop_date
InLastRange(h) == /\ ranges # << >>
                  /\ rows[h].id >= ranges[Len(ranges)][1]
                  /\ rows[h].id <  ranges[Len(ranges)][2]
\* the last block of the running model has been read (and committed)
BlockRead      == pc = "batches" /\ ranges # << >>
Logged(c)      == IF c = NotLogged THEN 0 ELSE c

\* C1: in a non-dry run, no version is deleted that differs in some tracked
\* field from its immediately older version of the same id.
C1_OnlyDuplicatesDeleted ==
    (~dry_run /\ pc # "idle") =>
        \A m \in Models : \A h \in table0[m] \ table[m] :
            \A o \in OlderOf(table0[m], h) : Equivalent(h, o)

\* C2: the oldest version of an id has no older neighbour; it is never
\* flagged by a block and never deleted by a run.
C2_AnchorKept ==
    /\ BlockRead => \A h \in listy : OlderOf(table0[model], h) # {}
    /\ \A m \in Models : \A h \in table0[m] :
           OlderOf(table0[m], h) = {} => h \in table[m]

\* C3: after a full non-dry run without cutoff, of every maximal run of
\* consecutive field-identical versions of an id exactly one version remains,
\* the oldest: a version survives iff it has no older version or differs from it.
C3_OldestOfRunSurvives ==
    (pc = "done" /\ ~dry_run /\ stop_date = NULL) =>
        \A m \in Models : \A h \in table0[m] :
            h \in table[m] <=> (\A o \in OlderOf(table0[m], h) : ~Equivalent(h, o))

\* C4 as stated: of an adjacent equivalent pair the older version is the one
\* flagged, and the newest version of an id is never deleted.
C4_OlderFlaggedNewestKept ==
    /\ BlockRead =>
           \A n \in table0[model] : \A o \in OlderOf(table0[model], n) :
               (InLastRange(n) /\ Equivalent(n, o)) => o \in listy
    /\ \A m \in Models : \A h \in table0[m] :
           (\A g \in table0[m] : rows[g].id = rows[h].id
                                 => rows[g].history_date <= rows[h].history_date)
           => h \in table[m]

\* C4 amended: of an adjacent equivalent pair (newer, older) the newer version
\* is flagged by the block of its id; in a non-dry run without cutoff it is
\* deleted, the newest version of the id included.
C4_NewerFlagged ==
    BlockRead =>
        \A n \in table0[model] : \A o \in OlderOf(table0[model], n) :
            (InLastRange(n) /\ Equivalent(n, o))
            => /\ n \in listy
               /\ (~dry_run /\ stop_date = NULL) => n \notin table[model]

C4_Witness ==
    /\ BlockRead /\ ~dry_run /\ stop_date = NULL
    /\ \E n \in listy : \E o \in OlderOf(table0[model], n) :
           /\ Equivalent(n, o)
           /\ \A g \in table0[model] : rows[g].id = rows[n].id
                                       => rows[g].history_date <= rows[n].history_date
           /\ n \notin table[model]
           /\ o \in table[model]

\* C5: a second full non-dry run right after a first one flags and deletes nothing.
C5_SecondRunDeletesNothing ==
    (/\ pc = "done" /\ ~dry_run /\ date_back = NULL
     /\ prev.ended = "done" /\ ~prev.dry_run /\ prev.date_back = NULL)
    => \A m \in Models : Logged(report[m]) = 0 /\ table[m] = table0[m]

\* C6: the count a dry run reports for a model is the number of rows a non-dry
\* run with the same options then removes from the model's table.
C6_DryCountIsRemoved ==
    (/\ pc = "done" /\ ~dry_run
     /\ prev.ended = "done" /\ prev.dry_run /\ prev.date_back = date_back)
    => \A m \in Models :
           Logged(prev.report[m]) = Cardinality(table0[m] \ table[m])

\* C7: a dry run never changes a history table, whatever the model, the block
\* or the cutoff.
C7_DryRunNoMutation ==
    (dry_run /\ pc # "idle") => table = table0

C7_Witness ==
    /\ dry_run /\ pc = "done" /\ stop_date # NULL
    /\ \A m \in Models : report[m] > 0
    /\ table = table0

\* the steps that go on with the running invocation
ContinueRun ==
    \/ Batch \/ BatchFail \/ LogDone \/ Finish
    \/ \E m \in Models : SkipModel(m) \/ StartModel(m)

\* C8 as stated: after a block has failed the orchestrator goes on with the
\* next blocks and the remaining models.
C8_ContinuesAfterFailure ==
    (pc = "raised" /\ (x < max_iterations \/ to_process # {})) => ENABLED ContinueRun

\* C8 amended: when the transaction of a block raises, that block leaves the
\* tables as they were and the deletions of the earlier blocks stay; the
\* exception ends the invocation: no later block of the model runs, nothing is
\* logged for it, and the models not yet visited are left untouched.
C8_FailureEndsRun ==
    /\ [][pc' = "raised" /\ pc = "batches" => table' = table]_vars
    /\ [](pc = "raised" =>
            /\ ~ ENABLED ContinueRun
            /\ report[model] = NotLogged
            /\ Len(ranges) = x + 1
            /\ \A m \in to_process : table[m] = table0[m] /\ report[m] = NotLogged)

C8_Witness ==
    /\ pc = "raised" /\ x > 0 /\ to_process # {}
    /\ table[model] # table0[model]
    /\ \E m \in to_process : raw_query(table[m], 0, MaxId + 1) # {}

\* the blocks of a finished inner loop are contiguous from 0 and disjoint, and
\* every id of 0..max_id lies in exactly one of them
Coverage(lastBlock) ==
    (pc = "batches" /\ x > max_iterations) =>
        /\ \A i \in 1..Len(ranges) :
               ranges[i] = << (i - 1) * step_size, i * step_size >>
        /\ \A id \in 0..max_id :
               Cardinality({i \in 1..Len(ranges) :
                               ranges[i][1] <= id /\ id < ranges[i][2]}) = 1
        /\ lastBlock

\* C9 as stated: the blocks [x*step_size, (x+1)*step_size) are contiguous from
\* 0 and disjoint, every id of 0..max_id lies in exactly one, and the last
\* block is the one that contains max_id.
C9_LastBlockHoldsMaxId ==
    Coverage(ranges[Len(ranges)][1] <= max_id /\ max_id < ranges[Len(ranges)][2])

\* C9 amended: contiguous, disjoint and covering 0..max_id as stated; the last
\* block starts at the least multiple of step_size that is >= max_id, so it
\* contains max_id when step_size divides max_id and lies entirely above
\* max_id otherwise.
C9_LastBlockAtCeiling ==
    Coverage(/\ ranges[Len(ranges)][1] >= max_id
                /\ ranges[Len(ranges)][1] < max_id + step_size)

C9_Witness ==
    /\ pc = "batches" /\ x > max_iterations
    /\ Len(ranges) = 2 /\ max_id = 1 /\ step_size = 2
    /\ ranges[2][1] > max_id

\* C10: with a cutoff, the oldest in-window version of an id that is
\* field-identical to the nearest version before the cutoff is flagged by its
\* block and deleted by a non-dry run, and no version recorded before the
\* cutoff is removed.
C10_BoundaryDuplicate ==
    /\ (BlockRead /\ stop_date # NULL) =>
           \A v \in table0[model] : \A w \in OlderOf(table0[model], v) :
               (InLastRange(v) /\ InWindow(v) /\ ~InWindow(w) /\ Equivalent(v, w))
               => v \in listy
    /\ (pc = "done" /\ stop_date # NULL /\ ~dry_run) =>
           \A m \in Models : \A v \in table0[m] : \A w \in OlderOf(table0[m], v) :
               (InWindow(v) /\ ~InWindow(w) /\ Equivalent(v, w)) => v \notin table[m]
    /\ stop_date # NULL =>
           \A m \in Models : \A h \in table0[m] : ~InWindow(h) => h \in table[m]

\* the fixture: t=1 state A, t=2 state A, t=3 state B, the window holds t=2, t=3
C10_Witness ==
    /\ pc = "done" /\ ~dry_run /\ stop_date = 2
    /\ rows[1].id = rows[2].id /\ rows[2].id = rows[3].id
    /\ Equivalent(1, 2) /\ ~Equivalent(2, 3)
    /\ \E m \in Models : table0[m] = Hids /\ table[m] = {1, 3}

====
